---- MODULE Spec2Model ----
(***************************************************************************)
(* Model of src/0x02-redis_basic/web.py: WebCacheTracker, the wrapper      *)
(* built by count_url_access, and get_url_count, over a Redis store.       *)
(*                                                                         *)
(* A caller runs one invocation at a time; every store call and every     *)
(* call of the wrapped method is one step.  The callers that take part     *)
(* are fixed by the initial state (clients): under Spec there is one, so   *)
(* invocations follow one another.                                         *)
(*                                                                         *)
(* str values are sequences of code points, bytes values sequences of      *)
(* octets.  An optional value is Nil (None) or Some(x).                    *)
(***************************************************************************)
EXTENDS Integers, Sequences, FiniteSets, TLC

\* ---------------------------------------------------------------- bounds
NumCallers == 2      \* callers of the wrapped function
MaxCalls   == 3      \* invocations started in one behaviour
MaxExpiry  == 2      \* largest cache_expiry the constructor is given
ConcCalls  == 2      \* invocations started when callers interleave

Callers == 1 .. NumCallers

\* url arguments: the empty string and two urls
Urls == {"", "x", "y"}

\* what the wrapped method can return: "", "A", "é"
Pages == {<< >>, <<65>>, <<233>>}

Nil == << >>
Some(x) == <<x>>

\* ------------------------------------------------------- pure functions

\* mutant of cached_key: the entry is kept under the key of another url
cached_key_other(url) == "cached:" \o (IF url = "x" THEN "y" ELSE IF url = "y" THEN "x" ELSE url)

\* f"cached:{url}"
cached_key(url) == "cached:" \o url

\* mutant of count_key: the url is left out of the counter's key
count_key_shared(url) == "count:"

\* f"count:{url}"
count_key(url) == "count:" \o url

StoreKeys == {cached_key(u) : u \in Urls} \cup {count_key(u) : u \in Urls}

\* mutant of EncodeChar: the value is stored in latin-1, one octet per code point
EncodeChar_latin1(cp) == <<cp>>

\* str.encode("utf-8") of one code point below 2048
EncodeChar(cp) ==
    IF cp < 128 THEN <<cp>>
    ELSE <<192 + (cp \div 64), 128 + (cp % 64)>>

RECURSIVE Encode(_)
\* the bytes redis-py sends for a str value
Encode(s) == IF s = << >> THEN << >> ELSE EncodeChar(Head(s)) \o Encode(Tail(s))

RECURSIVE Utf8Valid(_)
\* whether bytes.decode("utf-8") succeeds (one- and two-octet forms)
Utf8Valid(b) ==
    IF b = << >> THEN TRUE
    ELSE IF b[1] < 128 THEN Utf8Valid(Tail(b))
    ELSE IF b[1] >= 194 /\ b[1] < 224 /\ Len(b) >= 2 /\ b[2] >= 128 /\ b[2] < 192
         THEN Utf8Valid(Tail(Tail(b)))
    ELSE FALSE

RECURSIVE Decode(_)
\* cached_data.decode("utf-8") of valid bytes
Decode(b) ==
    IF b = << >> THEN << >>
    ELSE IF b[1] < 128 THEN <<b[1]>> \o Decode(Tail(b))
    ELSE <<(b[1] - 192) * 64 + (b[2] - 128)>> \o Decode(Tail(Tail(b)))

RECURSIVE IntToBytes(_)
\* the decimal text Redis keeps for an integer value
IntToBytes(n) ==
    IF n < 10 THEN <<48 + n>> ELSE IntToBytes(n \div 10) \o <<48 + (n % 10)>>

RECURSIVE BytesToInt(_)
\* int(count) of decimal text
BytesToInt(b) ==
    IF Len(b) = 1 THEN b[1] - 48
    ELSE 10 * BytesToInt(SubSeq(b, 1, Len(b) - 1)) + (b[Len(b)] - 48)

\* mutant of empty_url: the empty url is let through
empty_url_never(u) == FALSE

\* if not url: raise ValueError("URL cannot be empty")
empty_url(u) == u = ""

\* Python truth value of an Optional[bytes]: None and b"" are false
Truthy(opt) == opt # Nil /\ Len(opt[1]) > 0

\* if cached_data: the lookup counts as a hit
is_hit(cd) == Truthy(cd)

\* mutant of on_redis_error: a store error re-enters the miss path
on_redis_error_miss == "fetch"

\* mutant of on_redis_error: there is no handler, the store error leaves the wrapper
on_redis_error_raise == "done"

\* except redis.RedisError: where the wrapper goes when a store call raises
on_redis_error == "fallback"

\* mutant of redis_incr: the counter is set to 1 instead of incremented
redis_incr_reset(d, k) == [d EXCEPT ![k] = Some(IntToBytes(1))]

\* mutant of redis_incr: the increment of a key that already exists is lost
redis_incr_lost(d, k) ==
    [d EXCEPT ![k] = Some(IntToBytes(IF d[k] = Nil THEN 1 ELSE BytesToInt(d[k][1])))]

\* Redis INCR: an absent key counts as 0; the key's expiry is kept
redis_incr(d, k) ==
    [d EXCEPT ![k] = Some(IntToBytes((IF d[k] = Nil THEN 0 ELSE BytesToInt(d[k][1])) + 1))]

\* Redis SETEX rejects an expiry that is not positive (ResponseError)
setex_rejected(time) == time <= 0

\* results of an invocation
Value(v)     == [kind |-> "value", val |-> v]
ValueError   == [kind |-> "ValueError", val |-> << >>]
\* RuntimeError(f"Error processing URL {url}: {str(e)}")
RuntimeError(u, cause) == [kind |-> "RuntimeError", val |-> << >>, key |-> u, cause |-> cause]
FetchError   == [kind |-> "FetchError", val |-> << >>]
CountResult(n) == [kind |-> "count", val |-> <<n>>]
NoneResult   == [kind |-> "None", val |-> << >>]
NoResult     == [kind |-> "pending", val |-> << >>]

\* mutant of on_exception: the error is swallowed and "" returned
on_exception_swallowed(u, cause) == Value(<< >>)

\* except Exception as e: raise RuntimeError(...) with the url and str(e)
on_exception(u, cause) == RuntimeError(u, cause)

\* mutant of fallback_error: the handler wraps the exception as the try block does
fallback_error_wrapped(u) == RuntimeError(u, "FetchError")

\* return method(url) in the RedisError handler: its exception leaves as it is
fallback_error(u) == FetchError

\* mutant of get_url_count: a store error is reported as a count of 0
get_url_count_zero(d, url, raised) ==
    LET count == d[count_key(url)]
    IN  CountResult(IF ~raised /\ Truthy(count) THEN BytesToInt(count[1]) ELSE 0)

\* int(count) if count else 0, or None when the store read raised
get_url_count(d, url, raised) ==
    IF raised THEN NoneResult
    ELSE LET count == d[count_key(url)]
         IN  CountResult(IF Truthy(count) THEN BytesToInt(count[1]) ELSE 0)

\* ----------------------------------------------------------------- state
VARIABLES
    clients,       \* the callers that use the tracker
    cache_expiry,  \* self.cache_expiry
    data,          \* the store: key -> Nil or Some(bytes)
    ttl,           \* the store: key -> seconds left, 0 when the key has no expiry
    pc,            \* caller -> position in wrapper / get_url_count
    url,           \* caller -> the url argument
    cached_data,   \* caller -> what self.store.get(cached_key) returned
    html,          \* caller -> what method(url) returned inside the try block
    result,        \* caller -> what the invocation returned or raised
    calls,         \* history: caller -> calls made by the current invocation
    failed,        \* history: caller -> store calls that raised in the current invocation
    touched,       \* history: caller -> store keys the current invocation changed
    atGet,         \* history: caller -> cacheSrc of its url when its get succeeded
    lastFetch,     \* history: caller -> outcome of its latest method(url) call
    started,       \* history: invocations started
    okCalls,       \* history: url -> wrapper invocations that returned a value
    storeFailed,   \* history: some store call has raised
    cacheSrc       \* history: url -> the setex that wrote the entry now cached

store  == <<data, ttl>>
locals == <<pc, url, cached_data, html, result>>
hist   == <<calls, failed, touched, atGet, lastFetch, started, okCalls, storeFailed, cacheSrc>>
vars   == <<clients, cache_expiry, data, ttl, pc, url, cached_data, html, result, calls, failed,
            touched, atGet, lastFetch, started, okCalls, storeFailed, cacheSrc>>

NoCalls == [get |-> 0, incr |-> 0, setex |-> 0, fetch |-> 0]
NoFetch == [made |-> FALSE, ok |-> FALSE, val |-> << >>]

\* WebCacheTracker.__init__ with an empty store, before any call
Init0 ==
    /\ cache_expiry \in 0 .. MaxExpiry
    /\ data = [k \in StoreKeys |-> Nil]
    /\ ttl = [k \in StoreKeys |-> 0]
    /\ pc = [c \in Callers |-> "idle"]
    /\ url = [c \in Callers |-> ""]
    /\ cached_data = [c \in Callers |-> Nil]
    /\ html = [c \in Callers |-> Nil]
    /\ result = [c \in Callers |-> NoResult]
    /\ calls = [c \in Callers |-> NoCalls]
    /\ failed = [c \in Callers |-> {}]
    /\ touched = [c \in Callers |-> {}]
    /\ atGet = [c \in Callers |-> Nil]
    /\ lastFetch = [c \in Callers |-> NoFetch]
    /\ started = 0
    /\ okCalls = [u \in Urls |-> 0]
    /\ storeFailed = FALSE
    /\ cacheSrc = [u \in Urls |-> Nil]

\* one caller: its invocations follow one another
Init == Init0 /\ clients = {1}

\* history: the store keys this step changed
Touch(c) ==
    touched' = [touched EXCEPT ![c] =
                   @ \cup {k \in StoreKeys : data'[k] # data[k] \/ ttl'[k] # ttl[k]}]

\* history: a store call of kind op was made, and raised or not
StoreCall(c, op, raised) ==
    /\ calls' = [calls EXCEPT ![c][op] = @ + 1]
    /\ failed' = [failed EXCEPT ![c] = IF raised THEN @ \cup {op} ELSE @]
    /\ storeFailed' = (storeFailed \/ raised)

\* history: the invocation of c ends with result r
Finish(c, r) ==
    /\ result' = [result EXCEPT ![c] = r]
    /\ okCalls' = [okCalls EXCEPT ![url[c]] = IF r.kind = "value" THEN @ + 1 ELSE @]

\* ---------------------------------------------------------------- wrapper

\* wrapper(url): the empty-url check and the two key names
Call(c, u) ==
    /\ c \in clients
    /\ pc[c] \in {"idle", "done", "counted"}
    /\ started < MaxCalls
    /\ started' = started + 1
    /\ url' = [url EXCEPT ![c] = u]
    /\ cached_data' = [cached_data EXCEPT ![c] = Nil]
    /\ html' = [html EXCEPT ![c] = Nil]
    /\ calls' = [calls EXCEPT ![c] = NoCalls]
    /\ failed' = [failed EXCEPT ![c] = {}]
    /\ touched' = [touched EXCEPT ![c] = {}]
    /\ atGet' = [atGet EXCEPT ![c] = Nil]
    /\ lastFetch' = [lastFetch EXCEPT ![c] = NoFetch]
    /\ IF empty_url(u)
       THEN /\ pc' = [pc EXCEPT ![c] = "done"]
            /\ result' = [result EXCEPT ![c] = ValueError]
       ELSE /\ pc' = [pc EXCEPT ![c] = "get"]
            /\ result' = [result EXCEPT ![c] = NoResult]
    /\ UNCHANGED <<clients, cache_expiry, data, ttl, okCalls, storeFailed, cacheSrc>>

\* cached_data = self.store.get(cached_key); if cached_data: ...
Get(c) ==
    /\ pc[c] = "get"
    /\ \E raised \in BOOLEAN :
          /\ StoreCall(c, "get", raised)
          /\ IF raised
             THEN /\ pc' = [pc EXCEPT ![c] = on_redis_error]
                  /\ UNCHANGED <<cached_data, atGet>>
             ELSE /\ cached_data' = [cached_data EXCEPT ![c] = data[cached_key(url[c])]]
                  /\ atGet' = [atGet EXCEPT ![c] = cacheSrc[url[c]]]
                  /\ pc' = [pc EXCEPT ![c] =
                               IF is_hit(data[cached_key(url[c])]) THEN "incr_hit" ELSE "fetch"]
    /\ UNCHANGED <<clients, cache_expiry, data, ttl, url, html, result, touched, lastFetch,
                   started, okCalls, cacheSrc>>

\* mutant of IncrHit: a hit also writes the entry back with a fresh expiry
IncrHit_refresh(c) ==
    /\ pc[c] = "incr_hit"
    /\ StoreCall(c, "incr", FALSE)
    /\ data' = redis_incr(data, count_key(url[c]))
    /\ ttl' = [ttl EXCEPT ![cached_key(url[c])] = cache_expiry]
    /\ pc' = [pc EXCEPT ![c] = "done"]
    /\ Finish(c, IF Utf8Valid(cached_data[c][1])
                 THEN Value(Decode(cached_data[c][1]))
                 ELSE on_exception(url[c], "UnicodeDecodeError"))
    /\ UNCHANGED <<clients, cache_expiry, url, cached_data, html, atGet, lastFetch,
                   started, cacheSrc>>
    /\ Touch(c)

\* self.store.incr(count_key); return cached_data.decode("utf-8")
IncrHit(c) ==
    /\ pc[c] = "incr_hit"
    /\ \E raised \in BOOLEAN :
          /\ StoreCall(c, "incr", raised)
          /\ IF raised
             THEN /\ pc' = [pc EXCEPT ![c] = on_redis_error]
                  /\ UNCHANGED <<data, result, okCalls>>
             ELSE /\ data' = redis_incr(data, count_key(url[c]))
                  /\ pc' = [pc EXCEPT ![c] = "done"]
                  /\ Finish(c, IF Utf8Valid(cached_data[c][1])
                               THEN Value(Decode(cached_data[c][1]))
                               ELSE on_exception(url[c], "UnicodeDecodeError"))
    /\ UNCHANGED <<clients, cache_expiry, ttl, url, cached_data, html, atGet, lastFetch,
                   started, cacheSrc>>
    /\ Touch(c)

\* html = method(url) inside the try block; any exception becomes RuntimeError
Fetch(c) ==
    /\ pc[c] = "fetch"
    /\ calls' = [calls EXCEPT ![c].fetch = @ + 1]
    /\ \/ \E p \in Pages :
             /\ html' = [html EXCEPT ![c] = Some(p)]
             /\ lastFetch' = [lastFetch EXCEPT ![c] = [made |-> TRUE, ok |-> TRUE, val |-> p]]
             /\ pc' = [pc EXCEPT ![c] = "setex"]
             /\ UNCHANGED <<result, okCalls>>
       \/ /\ lastFetch' = [lastFetch EXCEPT ![c] = [made |-> TRUE, ok |-> FALSE, val |-> << >>]]
          /\ pc' = [pc EXCEPT ![c] = "done"]
          /\ Finish(c, on_exception(url[c], "FetchError"))
          /\ UNCHANGED html
    /\ UNCHANGED <<clients, cache_expiry, data, ttl, url, cached_data, failed, touched, atGet,
                   started, storeFailed, cacheSrc>>

\* self.store.setex(name=cached_key, time=self.cache_expiry, value=html)
Setex(c) ==
    /\ pc[c] = "setex"
    /\ \E raised \in (IF setex_rejected(cache_expiry) THEN {TRUE} ELSE BOOLEAN) :
          /\ StoreCall(c, "setex", raised)
          /\ IF raised
             THEN /\ pc' = [pc EXCEPT ![c] = on_redis_error]
                  /\ UNCHANGED <<data, ttl, cacheSrc>>
             ELSE /\ data' = [data EXCEPT ![cached_key(url[c])] = Some(Encode(html[c][1]))]
                  /\ ttl' = [ttl EXCEPT ![cached_key(url[c])] = cache_expiry]
                  /\ cacheSrc' = [cacheSrc EXCEPT ![url[c]] =
                                     Some([page |-> html[c][1], by |-> c, returned |-> FALSE])]
                  /\ pc' = [pc EXCEPT ![c] = "incr_miss"]
    /\ UNCHANGED <<clients, cache_expiry, url, cached_data, html, result, atGet, lastFetch,
                   started, okCalls>>
    /\ Touch(c)

\* self.store.incr(count_key); return html
IncrMiss(c) ==
    /\ pc[c] = "incr_miss"
    /\ \E raised \in BOOLEAN :
          /\ StoreCall(c, "incr", raised)
          /\ IF raised
             THEN /\ pc' = [pc EXCEPT ![c] = on_redis_error]
                  /\ UNCHANGED <<data, result, okCalls, cacheSrc>>
             ELSE /\ data' = redis_incr(data, count_key(url[c]))
                  /\ pc' = [pc EXCEPT ![c] = "done"]
                  /\ Finish(c, Value(html[c][1]))
                  /\ cacheSrc' = [cacheSrc EXCEPT ![url[c]] =
                                     IF @ # Nil /\ @[1].by = c
                                     THEN Some([@[1] EXCEPT !.returned = TRUE])
                                     ELSE @]
    /\ UNCHANGED <<clients, cache_expiry, ttl, url, cached_data, html, atGet, lastFetch, started>>
    /\ Touch(c)

\* except redis.RedisError: print(...); return method(url)
Fallback(c) ==
    /\ pc[c] = "fallback"
    /\ calls' = [calls EXCEPT ![c].fetch = @ + 1]
    /\ pc' = [pc EXCEPT ![c] = "done"]
    /\ \/ \E p \in Pages :
             /\ lastFetch' = [lastFetch EXCEPT ![c] = [made |-> TRUE, ok |-> TRUE, val |-> p]]
             /\ Finish(c, Value(p))
       \/ /\ lastFetch' = [lastFetch EXCEPT ![c] = [made |-> TRUE, ok |-> FALSE, val |-> << >>]]
          /\ Finish(c, fallback_error(url[c]))
    /\ UNCHANGED <<clients, cache_expiry, data, ttl, url, cached_data, html, failed, touched, atGet,
                   started, storeFailed, cacheSrc>>

\* ---------------------------------------------------------- get_url_count

\* count = self.store.get(f"count:{url}"); int(count) if count else 0; None on RedisError
GetUrlCount(c, u) ==
    /\ c \in clients
    /\ pc[c] \in {"idle", "done", "counted"}
    /\ \E raised \in BOOLEAN :
          /\ result' = [result EXCEPT ![c] = get_url_count(data, u, raised)]
          /\ storeFailed' = (storeFailed \/ raised)
          /\ failed' = [failed EXCEPT ![c] = IF raised THEN {"count"} ELSE {}]
    /\ pc' = [pc EXCEPT ![c] = "counted"]
    /\ url' = [url EXCEPT ![c] = u]
    /\ cached_data' = [cached_data EXCEPT ![c] = Nil]
    /\ html' = [html EXCEPT ![c] = Nil]
    /\ calls' = [calls EXCEPT ![c] = NoCalls]
    /\ touched' = [touched EXCEPT ![c] = {}]
    /\ atGet' = [atGet EXCEPT ![c] = Nil]
    /\ lastFetch' = [lastFetch EXCEPT ![c] = NoFetch]
    /\ UNCHANGED <<clients, cache_expiry, data, ttl, started, okCalls, cacheSrc>>

\* ------------------------------------------------------------- the store

\* one second passes in the store: keys whose expiry runs out are deleted
Tick ==
    /\ \E k \in StoreKeys : ttl[k] > 0
    /\ ttl' = [k \in StoreKeys |-> IF ttl[k] > 0 THEN ttl[k] - 1 ELSE 0]
    /\ data' = [k \in StoreKeys |-> IF ttl[k] = 1 THEN Nil ELSE data[k]]
    /\ cacheSrc' = [u \in Urls |-> IF ttl[cached_key(u)] = 1 THEN Nil ELSE cacheSrc[u]]
    /\ UNCHANGED <<clients, cache_expiry, locals, calls, failed, touched, atGet, lastFetch,
                   started, okCalls, storeFailed>>

Next ==
    \/ \E c \in Callers, u \in Urls : Call(c, u)
    \/ \E c \in Callers : Get(c)
    \/ \E c \in Callers : IncrHit(c)
    \/ \E c \in Callers : Fetch(c)
    \/ \E c \in Callers : Setex(c)
    \/ \E c \in Callers : IncrMiss(c)
    \/ \E c \in Callers : Fallback(c)
    \/ \E c \in Callers, u \in Urls : GetUrlCount(c, u)
    \/ Tick

Spec == Init /\ [][Next]_vars

\* count_url_access(method): caller 1 calls the wrapper of one function, the other
\* callers that of a second function decorated by the same tracker
method_of(c) == IF c = 1 THEN "f" ELSE "g"

\* one statement of the wrapper run by caller c
Step(c) == Get(c) \/ IncrHit(c) \/ Fetch(c) \/ Setex(c) \/ IncrMiss(c) \/ Fallback(c)

\* every store call and every call of the wrapped function returns or raises:
\* an invocation under way takes its next statement
FairSpec == Init /\ [][Next]_vars /\ \A c \in Callers : WF_vars(Step(c))

\* every caller takes part: their invocations interleave step by step
InitConc == Init0 /\ clients = Callers

\* wrapper(url), while fewer than ConcCalls invocations have been started
ConcCall(c, u) == started < ConcCalls /\ Call(c, u)

NextConc ==
    \/ \E c \in Callers, u \in Urls : ConcCall(c, u)
    \/ \E c \in Callers : Get(c)
    \/ \E c \in Callers : IncrHit(c)
    \/ \E c \in Callers : Fetch(c)
    \/ \E c \in Callers : Setex(c)
    \/ \E c \in Callers : IncrMiss(c)
    \/ \E c \in Callers : Fallback(c)
    \/ \E c \in Callers, u \in Urls : GetUrlCount(c, u)
    \/ Tick

SpecConc == InitConc /\ [][NextConc]_vars

\* --------------------------------------------------------------- claims

\* the wrapper invocation of c has returned or raised
Done(c) == pc[c] = "done"

\* C1: on a miss whose fetch returned v, the wrapper returns exactly v, also
\* when the setex or the incr that follows raises.
C1_MissReturnsFetched ==
    \A c \in Callers :
        (Done(c) /\ html[c] # Nil) => result[c] = Value(html[c][1])

\* C2: within one invocation the wrapped method is called at most once and
\* each store operation (get, setex, incr) at most once.
C2_NoRetry ==
    \A c \in Callers :
        /\ calls[c].fetch <= 1
        /\ calls[c].get <= 1
        /\ calls[c].setex <= 1
        /\ calls[c].incr <= 1

\* C3: on a hit whose incr raises, the wrapper still returns the cached value.
C3_HitReturnsCached ==
    \A c \in Callers :
        (Done(c) /\ cached_data[c] # Nil /\ is_hit(cached_data[c]) /\ "incr" \in failed[c])
            => result[c] = Value(Decode(cached_data[c][1]))

\* C4: when the entry read by get was written by a miss that returned v with both
\* writes done, and no store call of this invocation raises, the wrapper returns
\* v without calling the wrapped method (for every v, "" included).
C4_HitAfterMiss ==
    \A c \in Callers :
        (Done(c) /\ failed[c] = {} /\ atGet[c] # Nil /\ atGet[c][1].returned)
            => (result[c] = Value(atGet[c][1].page) /\ calls[c].fetch = 0)

\* C8: on a miss whose setex raised, incr is still attempted once.
C8_IncrAfterFailedSetex ==
    \A c \in Callers :
        (Done(c) /\ "setex" \in failed[c]) => calls[c].incr = 1

\* the counter of url u as the store holds it
Counter(u) == IF data[count_key(u)] = Nil THEN 0 ELSE BytesToInt(data[count_key(u)][1])

\* C5: while no store call has raised, and with the counters absent at the start,
\* get_url_count(u) is the number of wrapper invocations on u that returned a value.
C5_CountEqualsSuccessful ==
    ~storeFailed =>
        \A u \in Urls : get_url_count(data, u, FALSE) = CountResult(okCalls[u])

C5_Witness ==
    /\ ~storeFailed
    /\ okCalls["x"] >= 2
    /\ data[cached_key("x")] = Nil
    /\ \E c \in Callers :
          pc[c] = "counted" /\ url[c] = "x" /\ result[c] = CountResult(okCalls["x"])

\* C6: an invocation whose get raised makes no incr and no setex and changes no
\* store key; it calls the wrapped method once and ends with that call's outcome.
C6_GetFailureFallsBack ==
    \A c \in Callers :
        "get" \in failed[c] =>
            /\ calls[c].incr = 0 /\ calls[c].setex = 0 /\ touched[c] = {}
            /\ Done(c) =>
                  /\ calls[c].fetch = 1
                  /\ lastFetch[c].made
                  /\ result[c] = IF lastFetch[c].ok THEN Value(lastFetch[c].val) ELSE FetchError

C6_Witness ==
    \E c \in Callers :
        /\ Done(c) /\ "get" \in failed[c]
        /\ result[c].kind = "value" /\ result[c].val # << >>
        /\ data[cached_key(url[c])] # Nil
        /\ Counter(url[c]) = 1

\* C7: when no store call of the invocation raised, the lookup missed and the
\* wrapped method raised, the invocation ends in RuntimeError and has made no
\* setex and no incr and changed no store key.
C7_FetchFailureOnMiss ==
    \A c \in Callers :
        (Done(c) /\ failed[c] = {} /\ lastFetch[c].made /\ ~lastFetch[c].ok) =>
            /\ result[c] = RuntimeError(url[c], "FetchError")
            /\ calls[c].setex = 0 /\ calls[c].incr = 0 /\ touched[c] = {}

C7_Witness ==
    \E c \in Callers :
        /\ Done(c) /\ failed[c] = {} /\ lastFetch[c].made /\ ~lastFetch[c].ok
        /\ calls[c].get = 1 /\ ~is_hit(cached_data[c])
        /\ Counter(url[c]) = 1

\* C9: a wrapper invocation with the empty url ends at once in ValueError, having
\* made no store call and no call of the wrapped method and changed no store key.
C9_EmptyUrlRejected ==
    \A c \in Callers :
        (url[c] = "" /\ pc[c] \notin {"idle", "counted"}) =>
            /\ Done(c)
            /\ result[c] = ValueError
            /\ calls[c] = NoCalls
            /\ touched[c] = {}

C9_Witness ==
    \E c \in Callers :
        /\ Done(c) /\ url[c] = "" /\ result[c] = ValueError
        /\ Counter("x") = 1 /\ data[cached_key("x")] # Nil

\* C10: the counter of a url never exceeds the number of wrapper invocations on
\* it that returned a value, an invocation attempts incr at most once, and no
\* step lowers a counter.
C10_NeverOvercounted ==
    /\ [](\A u \in Urls : Counter(u) <= okCalls[u])
    /\ [](\A c \in Callers : calls[c].incr <= 1)
    /\ [][\A u \in Urls : Counter(u)' >= Counter(u)]_vars

C10_Witness ==
    /\ storeFailed
    /\ okCalls["x"] = 3
    /\ Counter("x") = 1

\* the callers whose wrapper invocation is under way
InFlight(c) == pc[c] \in {"get", "incr_hit", "fetch", "setex", "incr_miss", "fallback"}

\* C11: with interleaved callers and no store call raising, no increment is lost:
\* whenever no invocation is under way the counter of each url is the number of
\* invocations on it that returned, and the entry cached for a url is the one
\* the last setex on it wrote.
C11_NoLostIncrement ==
    /\ (~storeFailed /\ \A c \in Callers : ~InFlight(c)) =>
          \A u \in Urls : Counter(u) = okCalls[u]
    /\ \A u \in Urls :
          cacheSrc[u] # Nil => data[cached_key(u)] = Some(Encode(cacheSrc[u][1].page))

\* two callers missed on x at the same time, both fetched and wrote, both returned
C11_Witness ==
    /\ ~storeFailed
    /\ \A c \in {1, 2} :
          /\ Done(c) /\ url[c] = "x" /\ result[c].kind = "value"
          /\ calls[c] = [get |-> 1, incr |-> 1, setex |-> 1, fetch |-> 1]
    /\ html[1] # html[2]
    /\ Counter("x") = 2
    /\ atGet[1] = Nil /\ atGet[2] = Nil
    /\ cacheSrc["x"] # Nil /\ cacheSrc["x"][1].by = 1

\* C12: get_url_count(u) returns the counter of u as the store holds it, 0 when
\* u was never counted, and None, which is no count at all, when the read raised.
C12_CountOrNone ==
    \A c \in Callers :
        pc[c] = "counted" =>
            /\ "count" \in failed[c] =>
                  /\ result[c] = NoneResult
                  /\ \A n \in 0 .. MaxCalls : result[c] # CountResult(n)
            /\ "count" \notin failed[c] =>
                  /\ result[c] = CountResult(Counter(url[c]))
                  /\ data[count_key(url[c])] = Nil => result[c] = CountResult(0)

\* the read of a never counted url raised while another url has been counted
C12_Witness ==
    \E c \in Callers :
        /\ pc[c] = "counted" /\ url[c] = "y" /\ "count" \in failed[c]
        /\ data[count_key("y")] = Nil
        /\ Counter("x") = 2

\* C13: a wrapper invocation with a non-empty url ends with a value or with an
\* error of the wrapped method, never with a store error; it ends with an error
\* only when its latest call of the wrapped method raised.
C13_NoStoreErrorSurfaces ==
    \A c \in Callers :
        (Done(c) /\ url[c] # "") =>
            /\ result[c].kind \in {"value", "RuntimeError", "FetchError"}
            /\ result[c].kind # "value" => (lastFetch[c].made /\ ~lastFetch[c].ok)
            /\ (calls[c].fetch = 0 \/ lastFetch[c].ok) => result[c].kind = "value"

\* setex went through, incr raised, and the invocation still returned a value
C13_Witness ==
    \E c \in Callers :
        /\ Done(c) /\ url[c] = "x" /\ failed[c] = {"incr"} /\ html[c] # Nil
        /\ result[c].kind = "value"

C15_MissAfterExpiry ==
    /\ [](\A u \in Urls : data[cached_key(u)] # Nil => ttl[cached_key(u)] > 0)
    /\ [](\A c \in Callers :
            (Done(c) /\ failed[c] = {} /\ calls[c].get = 1 /\ cached_data[c] = Nil
                     /\ lastFetch[c].ok) =>
                /\ calls[c] = [get |-> 1, incr |-> 1, setex |-> 1, fetch |-> 1]
                /\ result[c] = Value(lastFetch[c].val)
                /\ touched[c] = {cached_key(url[c]), count_key(url[c])})
    /\ [][\A c \in Callers :
            /\ (pc[c] = "setex" /\ pc'[c] = "incr_miss") =>
                  /\ data'[cached_key(url[c])] # Nil
                  /\ Utf8Valid(data'[cached_key(url[c])][1])
                  /\ Decode(data'[cached_key(url[c])][1]) = html[c][1]
                  /\ ttl'[cached_key(url[c])] = cache_expiry
            /\ (pc[c] = "incr_miss" /\ pc'[c] = "done") =>
                  Counter(url[c])' = Counter(url[c]) + 1]_vars

\* the third returned invocation on x, with the store healthy throughout, found
\* no entry (the one written before has expired) and returned the new page
C15_Witness ==
    \E c \in Callers :
        /\ ~storeFailed /\ cache_expiry = 1
        /\ Done(c) /\ url[c] = "x" /\ cached_data[c] = Nil /\ calls[c].fetch = 1
        /\ okCalls["x"] = 3 /\ Counter("x") = 3
        /\ result[c] = Value(<<233>>)
        /\ data[cached_key("x")] = Some(<<195, 169>>)

\* C16: with cache_expiry = 0, when get and incr do not raise and the wrapped
\* method does not raise, every invocation calls the method once, returns its
\* value and adds one to the counter.
C16_ZeroExpiryStillCounts ==
    \A c \in Callers :
        (cache_expiry = 0 /\ Done(c) /\ url[c] # ""
            /\ "get" \notin failed[c] /\ "incr" \notin failed[c]
            /\ html[c] # Nil /\ lastFetch[c].ok) =>
            /\ calls[c].fetch = 1
            /\ calls[c].incr = 1
            /\ result[c] = Value(html[c][1])

\* C17: when the entry read by get was cached by the wrapper of the other
\* function and no store call raises, the invocation returns the cached page
\* without calling its own function, and changes only the counter of the url.
C17_SharedAcrossFetchers ==
    \A c \in Callers :
        (Done(c) /\ failed[c] = {} /\ atGet[c] # Nil
            /\ method_of(atGet[c][1].by) # method_of(c)) =>
            /\ result[c] = Value(atGet[c][1].page)
            /\ calls[c].fetch = 0
            /\ touched[c] = {count_key(url[c])}

\* position of a statement in the text of the wrapper: the try body runs top
\* down (get, then incr on a hit or fetch, setex, incr on a miss), the
\* RedisError handler comes after it, the return or raise comes last
Rank(p) ==
    CASE p = "idle" -> 0
      [] p = "counted" -> 0
      [] p = "get" -> 1
      [] p = "incr_hit" -> 2
      [] p = "fetch" -> 2
      [] p = "setex" -> 3
      [] p = "incr_miss" -> 4
      [] p = "fallback" -> 5
      [] p = "done" -> 6

\* C18: an invocation under way reaches its return or raise; every statement
\* it runs moves it forward in the wrapper, never back; and it makes at most one
\* get, one setex and one incr, and calls the wrapped function at most twice.
C18_Terminates ==
    /\ \A c \in Callers : InFlight(c) ~> Done(c)
    /\ [][\A c \in Callers :
            (InFlight(c) /\ pc'[c] # pc[c]) => Rank(pc'[c]) > Rank(pc[c])]_vars
    /\ [](\A c \in Callers :
            /\ calls[c].get <= 1 /\ calls[c].setex <= 1
            /\ calls[c].incr <= 1 /\ calls[c].fetch <= 2)

\* the longest run: get, fetch, setex raises, the handler fetches again, return
C18_Witness ==
    \E c \in Callers :
        /\ Done(c) /\ result[c].kind = "value"
        /\ calls[c] = [get |-> 1, incr |-> 0, setex |-> 1, fetch |-> 2]

\* C19: the entry of a url changes only when a second passes in the store or
\* when the setex of a miss writes the page the wrapped function just returned,
\* with an expiry of cache_expiry; an entry present holds such a page and has
\* between 1 and cache_expiry seconds left; the incr of a hit leaves the entry
\* and its expiry as they were.
C19_WrittenOnlyOnMiss ==
    /\ [](\A u \in Urls :
            data[cached_key(u)] # Nil =>
                /\ cacheSrc[u] # Nil
                /\ data[cached_key(u)] = Some(Encode(cacheSrc[u][1].page))
                /\ ttl[cached_key(u)] \in 1 .. cache_expiry)
    /\ [][\A u \in Urls :
            LET k == cached_key(u) IN
            (data'[k] # data[k] \/ ttl'[k] # ttl[k]) =>
                \/ /\ ttl[k] > 0 /\ ttl'[k] = ttl[k] - 1
                   /\ data'[k] = IF ttl[k] = 1 THEN Nil ELSE data[k]
                   /\ pc' = pc
                \/ \E c \in Callers :
                      /\ pc[c] = "setex" /\ pc'[c] = "incr_miss" /\ url[c] = u
                      /\ ~is_hit(cached_data[c])
                      /\ lastFetch[c].ok /\ html[c] = Some(lastFetch[c].val)
                      /\ data'[k] = Some(Encode(lastFetch[c].val))
                      /\ ttl'[k] = cache_expiry]_vars
    /\ [][\A c \in Callers :
            (pc[c] = "incr_hit" /\ pc'[c] # pc[c]) =>
                /\ data'[cached_key(url[c])] = data[cached_key(url[c])]
                /\ ttl'[cached_key(url[c])] = ttl[cached_key(url[c])]]_vars

\* a hit returned one second after the miss that wrote the entry for two
\* seconds, and the entry has one second left
C19_Witness ==
    \E c \in Callers :
        /\ Done(c) /\ atGet[c] # Nil /\ calls[c].fetch = 0 /\ calls[c].incr = 1
        /\ failed[c] = {} /\ result[c].kind = "value"
        /\ cache_expiry = 2 /\ ttl[cached_key(url[c])] = 1

\* C20: a statement of the wrapper called with url changes no store key other
\* than "cached:" + url and "count:" + url, and what get hands back is the value
\* under "cached:" + url; get_url_count(url) changes no store key, whether the
\* read raises or not, and reports None or the number under "count:" + url.
C20_Frame ==
    /\ [](\A c \in Callers : touched[c] \subseteq {"cached:" \o url[c], "count:" \o url[c]})
    /\ [][\A c \in Callers :
            (InFlight(c) /\ pc'[c] # pc[c]) =>
                /\ \A k \in StoreKeys \ {"cached:" \o url[c], "count:" \o url[c]} :
                      data'[k] = data[k] /\ ttl'[k] = ttl[k]
                /\ (pc[c] = "get" /\ pc'[c] \in {"incr_hit", "fetch"}) =>
                      cached_data'[c] = data["cached:" \o url[c]]]_vars
    /\ [][\A c \in Callers :
            (pc'[c] = "counted" /\ <<pc[c], url[c], result[c]>>' # <<pc[c], url[c], result[c]>>) =>
                /\ data' = data /\ ttl' = ttl
                /\ LET cnt == data["count:" \o url'[c]]
                   IN  result'[c] \in {NoneResult,
                                       CountResult(IF cnt = Nil THEN 0 ELSE BytesToInt(cnt[1]))}]_vars

\* a miss on "y" wrote its two keys while the entry and the counter of "x" exist
C20_Witness ==
    \E c \in Callers :
        /\ Done(c) /\ url[c] = "y" /\ touched[c] = {"cached:y", "count:y"}
        /\ data["cached:x"] # Nil /\ data["count:x"] # Nil

====
